---- MODULE Spec2Model ----
(***************************************************************************)
(* The Noise handshake state machine of src/handshakestate.rs, run by two  *)
(* parties (an initiator "I" and a responder "R") that exchange handshake  *)
(* messages.  Cryptography is symbolic: hashes, keys and ciphertexts are   *)
(* terms, equal exactly when they were built from equal parts.             *)
(***************************************************************************)
EXTENDS Integers, Sequences, FiniteSets, TLC

VARIABLES
    pat,      \* the handshake pattern named by the protocol name
    hs,       \* hs[p]: the HandshakeState of party p
    net,      \* net[p]: the messages party p has written, in order
    rd,       \* rd[p]: how many of the peer's messages p has read in order
    last,     \* the last call: who, what, its result and the state before
    bad,      \* how many calls so far were off protocol
    input,    \* the protocol name handed to the parser
    params,   \* the NoiseParams parsed from it, or the error
    tokens    \* the HandshakeTokens expanded from params.handshake

vars == <<pat, hs, net, rd, last, bad, input, params, tokens>>

Party == {"I", "R"}

Peer(p) == IF p = "I" THEN "R" ELSE "I"

-----------------------------------------------------------------------------
(* Constants of the program.                                               *)

TAGLEN == 16

MAXMSGLEN == 65535

PSKLEN == 32

DHLEN == 32

MAXDHLEN == 56

NumPsks == 10

(* Bounds of the model.                                                    *)

\* calls off protocol in one run: out of turn, after the end, with a short
\* buffer, with bytes the peer did not send, with unexpected key material,
\* on a message whose psk is not set
MaxBad == 1

-----------------------------------------------------------------------------
(* Symbolic terms.                                                         *)

T(t, n, a) == [t |-> t, n |-> n, a |-> a]

NoTerm == T("none", 0, <<>>)

Empty == T("empty", 0, <<>>)

Junk == T("junk", 0, <<>>)

Data(n) == T("data", n, <<>>)

\* key ids: 1 and 2 are the static keys, the others are ephemeral keys
StaticKey(p) == IF p = "I" THEN 1 ELSE 2

\* the ephemeral keys the random source can produce for a party: one key,
\* other than the fixed one (random keys all behave alike)
EphKeys(p) == IF p = "I" THEN {12} ELSE {22}

FixedEph(p) == IF p = "I" THEN 11 ELSE 21

\* Dh::pubkey
Pub(k) == T("pub", k, <<>>)

\* Dh::dh: the shared secret of a private key and a public key
DhOut(k, pk) ==
    IF pk.t = "pub"
    THEN T("dh", (IF k < pk.n THEN k ELSE pk.n) * 100 + (IF k < pk.n THEN pk.n ELSE k), <<>>)
    ELSE T("dhjunk", k, <<pk>>)

Chunk(v, len) == [v |-> v, len |-> len]

RECURSIVE MsgLen(_)
MsgLen(m) == IF m = <<>> THEN 0 ELSE Head(m).len + MsgLen(Tail(m))

-----------------------------------------------------------------------------
(* SymmetricState: (h, ck, key_set, cipher key, nonce).                    *)

\* SymmetricState::initialize
Initialize(name) ==
    [h |-> T("name", 0, <<T(name, 0, <<>>)>>),
     ck |-> T("name", 0, <<T(name, 0, <<>>)>>),
     has_key |-> FALSE, k |-> NoTerm, n |-> 0]

\* SymmetricState::mix_hash
MixHash(sym, data) == [sym EXCEPT !.h = T("H", 0, <<sym.h, data>>)]

\* SymmetricState::mix_key
MixKey(sym, ikm) ==
    [sym EXCEPT !.ck = T("hkdf2ck", 0, <<sym.ck, ikm>>),
                !.k = T("hkdf2k", 0, <<sym.ck, ikm>>),
                !.has_key = TRUE,
                !.n = 0]

\* SymmetricState::mix_key_and_hash
MixKeyAndHash(sym, ikm) ==
    [MixHash(sym, T("hkdf3h", 0, <<sym.ck, ikm>>))
        EXCEPT !.ck = T("hkdf3ck", 0, <<sym.ck, ikm>>),
               !.k = T("hkdf3k", 0, <<sym.ck, ikm>>),
               !.has_key = TRUE,
               !.n = 0]

\* the AEAD ciphertext of pt under key k, nonce n and associated data ad
Aead(k, n, ad, pt) == T("aead", n, <<k, ad, pt>>)

\* SymmetricState::encrypt_and_mix_hash: the ciphertext chunk and the new state
EncryptAndMixHash(sym, pt) ==
    LET ct == IF sym.has_key
              THEN Chunk(Aead(sym.k, sym.n, sym.h, pt.v), pt.len + TAGLEN)
              ELSE pt
        s1 == IF sym.has_key THEN [sym EXCEPT !.n = sym.n + 1] ELSE sym
    IN [ct |-> ct, sym |-> MixHash(s1, ct.v)]

\* does the AEAD accept ct under the current key, nonce and hash?
DecryptOk(sym, ct) ==
    \/ ~sym.has_key
    \/ /\ ct.t = "aead"
       /\ ct.n = sym.n
       /\ ct.a = <<sym.k, sym.h, ct.a[3]>>

\* SymmetricState::decrypt_and_mix_hash: the plaintext and the new state
DecryptAndMixHash(sym, ct) ==
    LET s1 == IF sym.has_key THEN [sym EXCEPT !.n = sym.n + 1] ELSE sym
    IN [ok |-> DecryptOk(sym, ct),
        pt |-> IF ~sym.has_key THEN ct
               ELSE IF DecryptOk(sym, ct) THEN ct.a[3] ELSE NoTerm,
        sym |-> MixHash(s1, ct)]

NoCiphers == <<NoTerm, NoTerm>>

\* SymmetricState::split: the two transport keys
Split(sym) == <<T("split1", 0, <<sym.ck>>), T("split2", 0, <<sym.ck>>)>>

\* SymmetricState::checkpoint
Checkpoint(sym) == sym

\* SymmetricState::restore
Restore(sym, checkpoint) == checkpoint

-----------------------------------------------------------------------------
(* Handshake patterns: the pre-message and message token lists.            *)

Tok(k) == [k |-> k, n |-> 0]

Psk(n) == [k |-> "Psk", n |-> n]

\* a protocol name is a sequence of words and separators ("_", "+"); a word
\* stands for a run of characters that a parser takes or rejects as a whole

\* str::split: the pieces of s between the separators sep
RECURSIVE Split_on(_, _, _)
Split_on(s, sep, piece) ==
    IF s = <<>> THEN <<piece>>
    ELSE IF Head(s) = sep THEN <<piece>> \o Split_on(Tail(s), sep, <<>>)
    ELSE Split_on(Tail(s), sep, Append(piece, Head(s)))

\* the base patterns the tables hold
BasePatterns == {"NN", "KN", "KK", "XX", "IK", "IX"}

\* HandshakeModifier::from_str: the number of a psk modifier, -1 for a word
\* that is no modifier
psk_number(word) ==
    CASE word = "psk0" -> 0
      [] word = "psk1" -> 1
      [] word = "psk2" -> 2
      [] OTHER -> -1

\* HandshakeModifierList::from_str: the pieces between "+", each one modifier
RECURSIVE parse_modifiers(_, _)
parse_modifiers(pieces, list) ==
    IF pieces = <<>> THEN [err |-> "none", list |-> list]
    ELSE IF Len(Head(pieces)) # 1 \/ psk_number(Head(pieces)[1]) < 0
    THEN [err |-> "UnsupportedModifier", list |-> <<>>]
    ELSE parse_modifiers(Tail(pieces), Append(list, psk_number(Head(pieces)[1])))

NoChoice == [pattern |-> "none", modifiers |-> <<>>]

\* HandshakeChoice::from_str: the pattern identifier, then the modifiers
HandshakeChoice_from_str(field) ==
    IF field = <<>> \/ Head(field) \notin BasePatterns
    THEN [err |-> "UnsupportedHandshakeType", choice |-> NoChoice]
    ELSE LET m == IF Tail(field) = <<>> THEN [err |-> "none", list |-> <<>>]
                  ELSE parse_modifiers(Split_on(Tail(field), "+", <<>>), <<>>)
         IN IF m.err # "none" THEN [err |-> m.err, choice |-> NoChoice]
            ELSE [err |-> "none",
                  choice |-> [pattern |-> Head(field), modifiers |-> m.list]]

\* the tables of the base patterns: the pre-message tokens of the initiator
\* and of the responder
base_premsg_i(pattern) == IF pattern \in {"KN", "KK"} THEN <<Tok("S")>> ELSE <<>>

base_premsg_r(pattern) == IF pattern \in {"IK", "KK"} THEN <<Tok("S")>> ELSE <<>>

\* the tables of the base patterns: the tokens of each message
base_msgs(pattern) ==
    CASE pattern = "NN" -> << <<Tok("E")>>, <<Tok("E"), Tok("Dhee")>> >>
      [] pattern = "KN" -> << <<Tok("E")>>, <<Tok("E"), Tok("Dhee"), Tok("Dhse")>> >>
      [] pattern = "KK" -> << <<Tok("E"), Tok("Dhes"), Tok("Dhss")>>,
                              <<Tok("E"), Tok("Dhee"), Tok("Dhse")>> >>
      [] pattern = "XX" -> << <<Tok("E")>>,
                              <<Tok("E"), Tok("Dhee"), Tok("S"), Tok("Dhes")>>,
                              <<Tok("S"), Tok("Dhse")>> >>
      [] pattern = "IK" -> << <<Tok("E"), Tok("Dhes"), Tok("S"), Tok("Dhss")>>,
                              <<Tok("E"), Tok("Dhee"), Tok("Dhse")>> >>
      [] pattern = "IX" -> << <<Tok("E"), Tok("S")>>,
                              <<Tok("E"), Tok("Dhee"), Tok("Dhse"), Tok("S"), Tok("Dhes")>> >>

\* apply_psk_modifier putting every Psk token first in the first message
apply_psk_modifier_first(msgs, n) == [msgs EXCEPT ![1] = <<Psk(n)>> \o @]

\* the psk modifier: psk0 puts a Psk token first in the first message, psk<k>
\* puts Psk(k-1) last in message k
apply_psk_modifier(msgs, n) ==
    IF n = 0 THEN [msgs EXCEPT ![1] = <<Psk(0)>> \o @]
    ELSE [msgs EXCEPT ![n] = Append(@, Psk(n - 1))]

\* the modifiers of a choice, applied in order
RECURSIVE apply_modifiers(_, _)
apply_modifiers(msgs, modifiers) ==
    IF modifiers = <<>> THEN [err |-> "none", msgs |-> msgs]
    ELSE IF Head(modifiers) > Len(msgs)
    THEN [err |-> "UnsupportedModifier", msgs |-> <<>>]
    ELSE apply_modifiers(apply_psk_modifier(msgs, Head(modifiers)), Tail(modifiers))

\* HandshakeTokens::try_from
HandshakeTokens_try_from(choice) ==
    LET m == apply_modifiers(base_msgs(choice.pattern), choice.modifiers)
    IN [err |-> m.err,
        premsg_pattern_i |-> base_premsg_i(choice.pattern),
        premsg_pattern_r |-> base_premsg_r(choice.pattern),
        msg_patterns |-> m.msgs]

\* the handshakes the two parties run
Patterns == {"NN", "KN", "KK", "XX", "IK", "IX", "NNpsk0", "NNpsk2"}

\* the pattern field of the protocol name of a handshake
Spelling(name) ==
    CASE name = "NNpsk0" -> <<"NN", "psk0">>
      [] name = "NNpsk2" -> <<"NN", "psk2">>
      [] OTHER -> <<name>>

\* NoiseParams.handshake
HandshakeChoice(name) == HandshakeChoice_from_str(Spelling(name)).choice

\* HandshakeTokens::try_from: premsg_pattern_i
premsg_pattern_i(name) == HandshakeTokens_try_from(HandshakeChoice(name)).premsg_pattern_i

\* HandshakeTokens::try_from: premsg_pattern_r
premsg_pattern_r(name) == HandshakeTokens_try_from(HandshakeChoice(name)).premsg_pattern_r

\* HandshakeTokens::try_from: msg_patterns
msg_patterns(name) == HandshakeTokens_try_from(HandshakeChoice(name)).msg_patterns

\* HandshakeChoice::is_psk
is_psk(name) == HandshakeChoice(name).modifiers # <<>>

-----------------------------------------------------------------------------
(* NoiseParams: the parser of protocol names.                              *)

\* BaseChoice::from_str
BaseChoice_from_str(field) ==
    IF field = <<"Noise">> THEN [err |-> "none", v |-> "Noise"]
    ELSE [err |-> "UnsupportedBaseType", v |-> "none"]

\* DHChoice::from_str
DHChoice_from_str(field) ==
    CASE field = <<"25519">> -> [err |-> "none", v |-> "Curve25519"]
      [] field = <<"448">> -> [err |-> "none", v |-> "Ed448"]
      [] OTHER -> [err |-> "UnsupportedDhType", v |-> "none"]

\* CipherChoice::from_str
CipherChoice_from_str(field) ==
    CASE field = <<"ChaChaPoly">> -> [err |-> "none", v |-> "ChaChaPoly"]
      [] field = <<"AESGCM">> -> [err |-> "none", v |-> "AESGCM"]
      [] OTHER -> [err |-> "UnsupportedCipherType", v |-> "none"]

\* HashChoice::from_str
HashChoice_from_str(field) ==
    CASE field = <<"SHA256">> -> [err |-> "none", v |-> "SHA256"]
      [] field = <<"SHA512">> -> [err |-> "none", v |-> "SHA512"]
      [] field = <<"BLAKE2s">> -> [err |-> "none", v |-> "Blake2s"]
      [] field = <<"BLAKE2b">> -> [err |-> "none", v |-> "Blake2b"]
      [] OTHER -> [err |-> "UnsupportedHashType", v |-> "none"]

\* no NoiseParams: nothing parsed yet, or the parse returned Err(err)
NoParams(err) ==
    [err |-> err, name |-> <<>>, base |-> "none", handshake |-> NoChoice,
     dh |-> "none", cipher |-> "none", hash |-> "none"]

\* NoiseParams::from_str, one argument of NoiseParams::new:
\* split.next().ok_or(TooFewParameters)?.parse()? with the parser of the field
Field_err(split, i, parsed) ==
    IF Len(split) < i THEN "TooFewParameters" ELSE parsed.err

\* the first error of a list of results, none when there is none
RECURSIVE first_err(_)
first_err(errs) ==
    IF errs = <<>> THEN "none"
    ELSE IF Head(errs) # "none" THEN Head(errs)
    ELSE first_err(Tail(errs))

\* from_str parsing the cipher field before the dh field
NoiseParams_from_str_cipherfirst(s) ==
    LET split == Split_on(s, "_", <<>>)
        at(i) == IF i <= Len(split) THEN split[i] ELSE <<>>
        base == BaseChoice_from_str(at(1))
        handshake == HandshakeChoice_from_str(at(2))
        dh == DHChoice_from_str(at(3))
        cipher == CipherChoice_from_str(at(4))
        hash == HashChoice_from_str(at(5))
        err == first_err(<<Field_err(split, 1, base), Field_err(split, 2, handshake),
                           Field_err(split, 4, cipher), Field_err(split, 3, dh),
                           Field_err(split, 5, hash)>>)
    IN IF err # "none" THEN NoParams(err)
       ELSE [err |-> "none", name |-> s, base |-> base.v,
             handshake |-> handshake.choice, dh |-> dh.v,
             cipher |-> cipher.v, hash |-> hash.v]

\* NoiseParams::from_str: the arguments of NoiseParams::new are evaluated from
\* left to right and the first `?` that meets an error returns it
NoiseParams_from_str(s) ==
    LET split == Split_on(s, "_", <<>>)
        at(i) == IF i <= Len(split) THEN split[i] ELSE <<>>
        base == BaseChoice_from_str(at(1))
        handshake == HandshakeChoice_from_str(at(2))
        dh == DHChoice_from_str(at(3))
        cipher == CipherChoice_from_str(at(4))
        hash == HashChoice_from_str(at(5))
        err == first_err(<<Field_err(split, 1, base), Field_err(split, 2, handshake),
                           Field_err(split, 3, dh), Field_err(split, 4, cipher),
                           Field_err(split, 5, hash)>>)
    IN IF err # "none" THEN NoParams(err)
       ELSE [err |-> "none", name |-> s, base |-> base.v,
             handshake |-> handshake.choice, dh |-> dh.v,
             cipher |-> cipher.v, hash |-> hash.v]

-----------------------------------------------------------------------------
(* HandshakeState.                                                         *)

NoPsks == [i \in 0 .. (NumPsks - 1) |-> NoTerm]

\* the pre-shared key both parties were given for slot i, as the len bytes
\* handed to set_psk
PskKey(i, len) == T("psk", i, <<Data(len)>>)

\* the number of bytes of a stored psk
PskLen(key) == key.a[1].n

\* a party before HandshakeState::new has succeeded for it
Unbuilt(p) ==
    [built |-> FALSE, initiator |-> (p = "I"), name |-> "NN",
     s |-> StaticKey(p), s_on |-> FALSE, e |-> 0, e_on |-> FALSE,
     fixed_ephemeral |-> FALSE, rs |-> NoTerm, rs_on |-> FALSE,
     re |-> NoTerm, re_on |-> FALSE, sym |-> Initialize("NN"),
     cipherstates |-> NoCiphers, psks |-> NoPsks, my_turn |-> FALSE,
     message_patterns |-> <<>>, pattern_position |-> 0, splits |-> 0]

Prologue == Data(100)

\* MixPremsg reading the slots without asking whether they are on
RECURSIVE MixPremsg_anyslot(_, _, _, _)
MixPremsg_anyslot(r, toks, own, h) ==
    IF toks = <<>> THEN r
    ELSE LET tok == Head(toks)
             key == IF own THEN Pub(IF tok.k = "S" THEN h.s ELSE h.e)
                    ELSE (IF tok.k = "S" THEN h.rs ELSE h.re)
         IN MixPremsg_anyslot([r EXCEPT !.sym = MixHash(r.sym, key)], Tail(toks), own, h)

\* HandshakeState::new, the pre-message loops: mix the public keys the tokens
\* name, own keys from s/e (own = TRUE) and the peer's from rs/re
RECURSIVE MixPremsg(_, _, _, _)
MixPremsg(r, toks, own, h) ==
    IF toks = <<>> \/ r.err # "none" THEN r
    ELSE LET tok == Head(toks)
             on == IF own THEN (IF tok.k = "S" THEN h.s_on ELSE h.e_on)
                   ELSE (IF tok.k = "S" THEN h.rs_on ELSE h.re_on)
             key == IF own THEN Pub(IF tok.k = "S" THEN h.s ELSE h.e)
                    ELSE (IF tok.k = "S" THEN h.rs ELSE h.re)
         IN IF ~on THEN [r EXCEPT !.err = "MissingKeyMaterial"]
            ELSE MixPremsg([r EXCEPT !.sym = MixHash(r.sym, key)], Tail(toks), own, h)

\* HandshakeState::new, the key length validation: s and e are key pairs of
\* the same DH function, rs and re are buffers of MAXDHLEN bytes
key_lengths_bad(s_on, e_on, rs_on, re_on) ==
    \/ (s_on /\ e_on /\ DHLEN # DHLEN)
    \/ (s_on /\ rs_on /\ DHLEN > MAXDHLEN)
    \/ (s_on /\ re_on /\ DHLEN > MAXDHLEN)

\* new giving the first turn to both roles
new_bothturn(p, name, s_on, fixed_ephemeral, rs_on, prologue) ==
    LET h0 == [Unbuilt(p) EXCEPT
                  !.name = name, !.s_on = s_on,
                  !.e = IF fixed_ephemeral THEN FixedEph(p) ELSE 0,
                  !.e_on = fixed_ephemeral,
                  !.fixed_ephemeral = fixed_ephemeral,
                  !.rs = IF rs_on THEN Pub(StaticKey(Peer(p))) ELSE NoTerm,
                  !.rs_on = rs_on]
        sym0 == MixHash(Initialize(name), prologue)
        r1 == MixPremsg([err |-> "none", sym |-> sym0], premsg_pattern_i(name),
                        h0.initiator, h0)
        r2 == MixPremsg(r1, premsg_pattern_r(name), ~h0.initiator, h0)
    IN IF key_lengths_bad(s_on, fixed_ephemeral, rs_on, FALSE)
       THEN [err |-> "ValidateKeyLengths", h |-> Unbuilt(p)]
       ELSE IF r2.err # "none" THEN [err |-> r2.err, h |-> Unbuilt(p)]
       ELSE [err |-> "none",
             h |-> [h0 EXCEPT !.built = TRUE, !.sym = r2.sym,
                              !.my_turn = TRUE,
                              !.message_patterns = msg_patterns(name),
                              !.pattern_position = 0]]

\* new giving the first turn to the responder
new_responderturn(p, name, s_on, fixed_ephemeral, rs_on, prologue) ==
    LET h0 == [Unbuilt(p) EXCEPT
                  !.name = name, !.s_on = s_on,
                  !.e = IF fixed_ephemeral THEN FixedEph(p) ELSE 0,
                  !.e_on = fixed_ephemeral,
                  !.fixed_ephemeral = fixed_ephemeral,
                  !.rs = IF rs_on THEN Pub(StaticKey(Peer(p))) ELSE NoTerm,
                  !.rs_on = rs_on]
        sym0 == MixHash(Initialize(name), prologue)
        r1 == MixPremsg([err |-> "none", sym |-> sym0], premsg_pattern_i(name),
                        h0.initiator, h0)
        r2 == MixPremsg(r1, premsg_pattern_r(name), ~h0.initiator, h0)
    IN IF key_lengths_bad(s_on, fixed_ephemeral, rs_on, FALSE)
       THEN [err |-> "ValidateKeyLengths", h |-> Unbuilt(p)]
       ELSE IF r2.err # "none" THEN [err |-> r2.err, h |-> Unbuilt(p)]
       ELSE [err |-> "none",
             h |-> [h0 EXCEPT !.built = TRUE, !.sym = r2.sym,
                              !.my_turn = ~h0.initiator,
                              !.message_patterns = msg_patterns(name),
                              !.pattern_position = 0]]

\* new mixing the responder's pre-message keys before the initiator's
new_rfirst(p, name, s_on, fixed_ephemeral, rs_on, prologue) ==
    LET h0 == [Unbuilt(p) EXCEPT
                  !.name = name, !.s_on = s_on,
                  !.e = IF fixed_ephemeral THEN FixedEph(p) ELSE 0,
                  !.e_on = fixed_ephemeral,
                  !.fixed_ephemeral = fixed_ephemeral,
                  !.rs = IF rs_on THEN Pub(StaticKey(Peer(p))) ELSE NoTerm,
                  !.rs_on = rs_on]
        sym0 == MixHash(Initialize(name), prologue)
        r1 == MixPremsg([err |-> "none", sym |-> sym0], premsg_pattern_r(name),
                        ~h0.initiator, h0)
        r2 == MixPremsg(r1, premsg_pattern_i(name), h0.initiator, h0)
    IN IF key_lengths_bad(s_on, fixed_ephemeral, rs_on, FALSE)
       THEN [err |-> "ValidateKeyLengths", h |-> Unbuilt(p)]
       ELSE IF r2.err # "none" THEN [err |-> r2.err, h |-> Unbuilt(p)]
       ELSE [err |-> "none",
             h |-> [h0 EXCEPT !.built = TRUE, !.sym = r2.sym,
                              !.my_turn = h0.initiator,
                              !.message_patterns = msg_patterns(name),
                              !.pattern_position = 0]]

\* HandshakeState::new
new(p, name, s_on, fixed_ephemeral, rs_on, prologue) ==
    LET h0 == [Unbuilt(p) EXCEPT
                  !.name = name, !.s_on = s_on,
                  !.e = IF fixed_ephemeral THEN FixedEph(p) ELSE 0,
                  !.e_on = fixed_ephemeral,
                  !.fixed_ephemeral = fixed_ephemeral,
                  !.rs = IF rs_on THEN Pub(StaticKey(Peer(p))) ELSE NoTerm,
                  !.rs_on = rs_on]
        sym0 == MixHash(Initialize(name), prologue)
        r1 == MixPremsg([err |-> "none", sym |-> sym0], premsg_pattern_i(name),
                        h0.initiator, h0)
        r2 == MixPremsg(r1, premsg_pattern_r(name), ~h0.initiator, h0)
    IN IF key_lengths_bad(s_on, fixed_ephemeral, rs_on, FALSE)
       THEN [err |-> "ValidateKeyLengths", h |-> Unbuilt(p)]
       ELSE IF r2.err # "none" THEN [err |-> r2.err, h |-> Unbuilt(p)]
       ELSE [err |-> "none",
             h |-> [h0 EXCEPT !.built = TRUE, !.sym = r2.sym,
                              !.my_turn = h0.initiator,
                              !.message_patterns = msg_patterns(name),
                              !.pattern_position = 0]]

\* HandshakeState::dh, the key material check
dh_has_keys(h, local_s, remote_s) ==
    /\ (~local_s \/ h.s_on)
    /\ (local_s \/ h.e_on)
    /\ (~remote_s \/ h.rs_on)
    /\ (remote_s \/ h.re_on)

\* HandshakeState::dh
dh(h, local_s, remote_s) ==
    IF ~dh_has_keys(h, local_s, remote_s)
    THEN [err |-> "MissingKeyMaterial", out |-> NoTerm]
    ELSE [err |-> "none",
          out |-> DhOut(IF local_s THEN h.s ELSE h.e,
                        IF remote_s THEN h.rs ELSE h.re)]

\* HandshakeState::is_finished
is_finished(h) == h.pattern_position = Len(h.message_patterns)

\* HandshakeState::get_handshake_hash
get_handshake_hash(h) == h.sym.h

\* HandshakeState::get_remote_static
get_remote_static(h) == IF h.rs_on THEN h.rs ELSE NoTerm

-----------------------------------------------------------------------------
(* write_handshake_message.                                                *)

\* the state of one pass over the tokens of a message: the handshake state,
\* the bytes written or left to read, the error raised, the DH pairs computed
Fail(c, e) == [c EXCEPT !.err = e]

IsDh(tok) == tok.k \in {"Dhee", "Dhes", "Dhse", "Dhss"}

\* _write_handshake_message: the (local_s, remote_s) a DH token is given
write_dh_args(tok) ==
    CASE tok.k = "Dhee" -> <<FALSE, FALSE>>
      [] tok.k = "Dhes" -> <<FALSE, TRUE>>
      [] tok.k = "Dhse" -> <<TRUE, FALSE>>
      [] tok.k = "Dhss" -> <<TRUE, TRUE>>

\* a DH token, as both _write_handshake_message and _read_handshake_message
\* process it once its (local_s, remote_s) are chosen
DhToken(c, tok, args) ==
    LET d == dh(c.h, args[1], args[2])
    IN IF d.err # "none" THEN Fail(c, d.err)
       ELSE [c EXCEPT !.h.sym = MixKey(c.h.sym, d.out),
                      !.dhs = Append(c.dhs, <<tok.k, args[1], args[2]>>)]

\* PskToken mixing whatever the slot holds
PskToken_nocheck(c, tok) ==
    [c EXCEPT !.h.sym = MixKeyAndHash(c.h.sym, c.h.psks[tok.n])]

\* Token::Psk, the same in both directions
PskToken(c, tok) ==
    IF c.h.psks[tok.n] = NoTerm THEN Fail(c, "MissingPsk")
    ELSE [c EXCEPT !.h.sym = MixKeyAndHash(c.h.sym, c.h.psks[tok.n])]

\* room for an encryption in the rest of the output buffer
encrypt_fits(sym, ptlen, room) ==
    ptlen + (IF sym.has_key THEN TAGLEN ELSE 0) <= room

\* _write_handshake_message, Token::E
WriteE(c, buflen, ek) ==
    IF c.idx + DHLEN > buflen THEN Fail(c, "Input")
    ELSE LET e1 == IF c.h.fixed_ephemeral THEN c.h.e ELSE ek
             s1 == MixHash(c.h.sym, Pub(e1))
             s2 == IF is_psk(c.h.name) THEN MixKey(s1, Pub(e1)) ELSE s1
         IN [c EXCEPT !.h.e = e1, !.h.e_on = TRUE, !.h.sym = s2,
                      !.idx = c.idx + DHLEN,
                      !.out = Append(c.out, Chunk(Pub(e1), DHLEN))]

\* _write_handshake_message, Token::S
WriteS(c, buflen) ==
    IF ~c.h.s_on THEN Fail(c, "MissingKeyMaterial")
    ELSE IF c.idx + DHLEN > buflen THEN Fail(c, "Input")
    ELSE IF ~encrypt_fits(c.h.sym, DHLEN, buflen - c.idx) THEN Fail(c, "Input")
    ELSE LET r == EncryptAndMixHash(c.h.sym, Chunk(Pub(c.h.s), DHLEN))
         IN [c EXCEPT !.h.sym = r.sym, !.idx = c.idx + r.ct.len,
                      !.out = Append(c.out, r.ct)]

\* _write_handshake_message, the loop over the tokens of the message
RECURSIVE WriteTokens(_, _, _, _)
WriteTokens(c, toks, buflen, ek) ==
    IF toks = <<>> \/ c.err # "none" THEN c
    ELSE LET tok == Head(toks)
             c1 == CASE tok.k = "E" -> WriteE(c, buflen, ek)
                     [] tok.k = "S" -> WriteS(c, buflen)
                     [] tok.k = "Psk" -> PskToken(c, tok)
                     [] IsDh(tok) -> DhToken(c, tok, write_dh_args(tok))
         IN WriteTokens(c1, Tail(toks), buflen, ek)

\* write_precheck asking whether the handshake is finished before whose turn
\* it is
write_precheck_finishedfirst(h) ==
    IF h.pattern_position >= Len(h.message_patterns)
    THEN "HandshakeAlreadyFinished"
    ELSE IF ~h.my_turn THEN "NotTurnToWrite"
    ELSE "none"

\* write_precheck without the turn check
write_precheck_noturn(h) ==
    IF h.pattern_position >= Len(h.message_patterns)
    THEN "HandshakeAlreadyFinished"
    ELSE "none"

\* _write_handshake_message, the checks before any token is processed
write_precheck(h) ==
    IF ~h.my_turn THEN "NotTurnToWrite"
    ELSE IF h.pattern_position >= Len(h.message_patterns)
         THEN "HandshakeAlreadyFinished"
    ELSE "none"

\* is_last taking every message for the last one
is_last_always(h) == TRUE

\* is this the last message of the pattern?
is_last(h) == h.pattern_position = Len(h.message_patterns) - 1

\* write_finish without the check of the message length
write_finish_nomax(c, payload, buflen) ==
    IF c.idx + payload.len + TAGLEN > buflen THEN Fail(c, "Input")
    ELSE LET r == EncryptAndMixHash(c.h.sym, payload)
             idx == c.idx + r.ct.len
             c1 == [c EXCEPT !.h.sym = r.sym, !.idx = idx,
                             !.out = Append(c.out, r.ct)]
         IN [c1 EXCEPT
                !.h.cipherstates =
                    IF is_last(c.h) THEN Split(r.sym) ELSE c.h.cipherstates,
                !.h.splits = c.h.splits + (IF is_last(c.h) THEN 1 ELSE 0),
                !.h.my_turn = FALSE]

\* write_finish leaving my_turn as it was
write_finish_keepturn(c, payload, buflen) ==
    IF c.idx + payload.len + TAGLEN > buflen THEN Fail(c, "Input")
    ELSE LET r == EncryptAndMixHash(c.h.sym, payload)
             idx == c.idx + r.ct.len
             c1 == [c EXCEPT !.h.sym = r.sym, !.idx = idx,
                             !.out = Append(c.out, r.ct)]
         IN IF idx > MAXMSGLEN THEN Fail(c1, "Input")
            ELSE [c1 EXCEPT
                     !.h.cipherstates =
                         IF is_last(c.h) THEN Split(r.sym) ELSE c.h.cipherstates,
                     !.h.splits = c.h.splits + (IF is_last(c.h) THEN 1 ELSE 0)]

\* _write_handshake_message, after the tokens: payload, bounds, split, turn
write_finish(c, payload, buflen) ==
    IF c.idx + payload.len + TAGLEN > buflen THEN Fail(c, "Input")
    ELSE LET r == EncryptAndMixHash(c.h.sym, payload)
             idx == c.idx + r.ct.len
             c1 == [c EXCEPT !.h.sym = r.sym, !.idx = idx,
                             !.out = Append(c.out, r.ct)]
         IN IF idx > MAXMSGLEN THEN Fail(c1, "Input")
            ELSE [c1 EXCEPT
                     !.h.cipherstates =
                         IF is_last(c.h) THEN Split(r.sym) ELSE c.h.cipherstates,
                     !.h.splits = c.h.splits + (IF is_last(c.h) THEN 1 ELSE 0),
                     !.h.my_turn = FALSE]

\* _write_handshake_message
write_inner(h, payload, buflen, ek) ==
    LET c0 == [h |-> h, idx |-> 0, out |-> <<>>, err |-> write_precheck(h),
               dhs |-> <<>>]
    IN IF c0.err # "none" THEN c0
       ELSE LET c1 == WriteTokens(c0, h.message_patterns[h.pattern_position + 1],
                                  buflen, ek)
            IN IF c1.err # "none" THEN c1 ELSE write_finish(c1, payload, buflen)

\* write_handshake_message without the restore of the checkpoint
write_handshake_message_norestore(h, payload, buflen, ek) ==
    LET c == write_inner(h, payload, buflen, ek)
    IN IF c.err = "none"
       THEN [c EXCEPT !.h.pattern_position = c.h.pattern_position + 1]
       ELSE c

\* write_handshake_message advancing pattern_position whatever the result
write_handshake_message_advance(h, payload, buflen, ek) ==
    LET checkpoint == Checkpoint(h.sym)
        c == write_inner(h, payload, buflen, ek)
    IN IF c.err = "none"
       THEN [c EXCEPT !.h.pattern_position = c.h.pattern_position + 1]
       ELSE [c EXCEPT !.h.sym = Restore(c.h.sym, checkpoint),
                      !.h.pattern_position = c.h.pattern_position + 1]

\* write_handshake_message: checkpoint, call, advance or restore
write_handshake_message(h, payload, buflen, ek) ==
    LET checkpoint == Checkpoint(h.sym)
        c == write_inner(h, payload, buflen, ek)
    IN IF c.err = "none"
       THEN [c EXCEPT !.h.pattern_position = c.h.pattern_position + 1]
       ELSE [c EXCEPT !.h.sym = Restore(c.h.sym, checkpoint)]

-----------------------------------------------------------------------------
(* read_handshake_message.                                                 *)

\* the first k bytes of the unread part of a message, and the rest; bytes
\* that do not line up with a field the writer produced are junk
Take(ptr, k) ==
    IF ptr # <<>> /\ Head(ptr).len = k
    THEN [v |-> Head(ptr).v, rest |-> Tail(ptr)]
    ELSE [v |-> Junk,
          rest |-> IF MsgLen(ptr) = k THEN <<>>
                   ELSE <<Chunk(Junk, MsgLen(ptr) - k)>>]

\* everything left of the message, as one field
Trailer(ptr) ==
    IF MsgLen(ptr) = 0 THEN Chunk(Empty, 0)
    ELSE IF Len(ptr) = 1 THEN ptr[1]
    ELSE Chunk(Junk, MsgLen(ptr))

\* read_dh_args giving the reader the pairs of the writer
read_dh_args_aswrite(tok) ==
    CASE tok.k = "Dhee" -> <<FALSE, FALSE>>
      [] tok.k = "Dhes" -> <<FALSE, TRUE>>
      [] tok.k = "Dhse" -> <<TRUE, FALSE>>
      [] tok.k = "Dhss" -> <<TRUE, TRUE>>

\* _read_handshake_message: the (local_s, remote_s) a DH token is given
read_dh_args(tok) ==
    CASE tok.k = "Dhee" -> <<FALSE, FALSE>>
      [] tok.k = "Dhes" -> <<TRUE, FALSE>>
      [] tok.k = "Dhse" -> <<FALSE, TRUE>>
      [] tok.k = "Dhss" -> <<TRUE, TRUE>>

\* _read_handshake_message, Token::E
ReadE(c) ==
    IF MsgLen(c.ptr) < DHLEN THEN Fail(c, "Input")
    ELSE LET t == Take(c.ptr, DHLEN)
             s1 == MixHash(c.h.sym, t.v)
             s2 == IF is_psk(c.h.name) THEN MixKey(s1, t.v) ELSE s1
         IN [c EXCEPT !.h.re = t.v, !.h.re_on = TRUE, !.h.sym = s2,
                      !.ptr = t.rest]

\* ReadS asking for DHLEN bytes whether or not a key is installed
ReadS_nokeylen(c) ==
    LET need == DHLEN
    IN IF MsgLen(c.ptr) < need THEN Fail(c, "Input")
       ELSE LET t == Take(c.ptr, need)
                r == DecryptAndMixHash(c.h.sym, t.v)
            IN IF ~r.ok THEN Fail([c EXCEPT !.h.sym = r.sym, !.ptr = t.rest], "Decrypt")
               ELSE [c EXCEPT !.h.rs = r.pt, !.h.rs_on = TRUE, !.h.sym = r.sym,
                              !.ptr = t.rest]

\* _read_handshake_message, Token::S
ReadS(c) ==
    LET need == IF c.h.sym.has_key THEN DHLEN + TAGLEN ELSE DHLEN
    IN IF MsgLen(c.ptr) < need THEN Fail(c, "Input")
       ELSE LET t == Take(c.ptr, need)
                r == DecryptAndMixHash(c.h.sym, t.v)
            IN IF ~r.ok THEN Fail([c EXCEPT !.h.sym = r.sym, !.ptr = t.rest], "Decrypt")
               ELSE [c EXCEPT !.h.rs = r.pt, !.h.rs_on = TRUE, !.h.sym = r.sym,
                              !.ptr = t.rest]

\* _read_handshake_message, the loop over the tokens of the message
RECURSIVE ReadTokens(_, _)
ReadTokens(c, toks) ==
    IF toks = <<>> \/ c.err # "none" THEN c
    ELSE LET tok == Head(toks)
             c1 == CASE tok.k = "E" -> ReadE(c)
                     [] tok.k = "S" -> ReadS(c)
                     [] tok.k = "Psk" -> PskToken(c, tok)
                     [] IsDh(tok) -> DhToken(c, tok, read_dh_args(tok))
         IN ReadTokens(c1, Tail(toks))

\* _read_handshake_message, the checks before any token is processed; indexing
\* message_patterns at or past its length panics
read_precheck(h, message) ==
    IF MsgLen(message) > MAXMSGLEN THEN "Input"
    ELSE IF h.pattern_position >= Len(h.message_patterns) THEN "panic"
    ELSE "none"

\* read_finish taking the turn before the payload is decrypted
read_finish_turnfirst(c, last_msg) ==
    LET tr == Trailer(c.ptr)
        r == DecryptAndMixHash(c.h.sym, tr.v)
    IN IF ~r.ok THEN Fail([c EXCEPT !.h.sym = r.sym, !.h.my_turn = TRUE], "Decrypt")
       ELSE [c EXCEPT
                !.h.sym = r.sym,
                !.h.my_turn = TRUE,
                !.h.cipherstates =
                    IF last_msg THEN Split(r.sym) ELSE c.h.cipherstates,
                !.h.splits = c.h.splits + (IF last_msg THEN 1 ELSE 0),
                !.idx = IF r.sym.has_key THEN tr.len - TAGLEN ELSE tr.len]

\* _read_handshake_message, after the tokens: payload, turn, split, length
read_finish(c, last_msg) ==
    LET tr == Trailer(c.ptr)
        r == DecryptAndMixHash(c.h.sym, tr.v)
    IN IF ~r.ok THEN Fail([c EXCEPT !.h.sym = r.sym], "Decrypt")
       ELSE [c EXCEPT
                !.h.sym = r.sym,
                !.h.my_turn = TRUE,
                !.h.cipherstates =
                    IF last_msg THEN Split(r.sym) ELSE c.h.cipherstates,
                !.h.splits = c.h.splits + (IF last_msg THEN 1 ELSE 0),
                !.idx = IF r.sym.has_key THEN tr.len - TAGLEN ELSE tr.len]

\* _read_handshake_message
read_inner(h, message) ==
    LET c0 == [h |-> h, idx |-> 0, ptr |-> message, err |-> read_precheck(h, message),
               dhs |-> <<>>]
    IN IF c0.err # "none" THEN c0
       ELSE LET c1 == ReadTokens(c0, h.message_patterns[h.pattern_position + 1])
            IN IF c1.err # "none" THEN c1 ELSE read_finish(c1, is_last(h))

\* read_handshake_message: checkpoint, call, advance or restore; a panic
\* unwinds through it
read_handshake_message(h, message) ==
    LET checkpoint == Checkpoint(h.sym)
        c == read_inner(h, message)
    IN IF c.err = "none"
       THEN [c EXCEPT !.h.pattern_position = c.h.pattern_position + 1]
       ELSE IF c.err = "panic" THEN c
       ELSE [c EXCEPT !.h.sym = Restore(c.h.sym, checkpoint)]

\* set_psk taking a key of any length
set_psk_anylen(h, location, keylen) ==
    IF NumPsks <= location
    THEN [err |-> "Input", h |-> h]
    ELSE [err |-> "none",
          h |-> [h EXCEPT !.psks[location] = PskKey(location, keylen)]]

\* HandshakeState::set_psk
set_psk(h, location, keylen) ==
    IF keylen # PSKLEN \/ NumPsks <= location
    THEN [err |-> "Input", h |-> h]
    ELSE [err |-> "none",
          h |-> [h EXCEPT !.psks[location] = PskKey(location, keylen)]]

-----------------------------------------------------------------------------
(* The two parties and the calls made on them.                             *)

\* the largest payload that fits a message of one key and no tag
BigPayload == MAXMSGLEN - DHLEN

\* the payload lengths a caller passes to write_handshake_message
PayloadLens == {0, 1, BigPayload}

BigBuf == MAXMSGLEN

\* a buffer with room for more than the largest message
HugeBuf == 2 * MAXMSGLEN

\* output buffers: too small for a key; one byte short of a key and a tag; a
\* key and a tag; one byte short of two keys and a tag; large enough for any
\* message; larger than any message
BufLens == {0, DHLEN + TAGLEN - 1, DHLEN + TAGLEN, 2 * DHLEN + TAGLEN - 1,
            BigBuf, HugeBuf}

Payload(len) == IF len = 0 THEN Chunk(Empty, 0) ELSE Chunk(Data(len), len)

\* messages no party wrote: empty, one key's worth of bytes, two keys' worth,
\* oversized
BadMsgs == <<  <<>>, <<Chunk(Junk, DHLEN)>>, <<Chunk(Junk, 2 * DHLEN)>>,
               <<Chunk(Junk, MAXMSGLEN + 1)>>  >>

\* a flag as a number, for the record of a call's arguments
B(flag) == IF flag THEN 1 ELSE 0

\* the record of a call: the operation, the party, the arguments, the state
\* before, the result, the value returned and the DH pairs computed
Call(op, p, arg, res, ret, dhs) ==
    [op |-> op, p |-> p, arg |-> arg, res |-> res, pre |-> hs[p], ret |-> ret,
     dhs |-> dhs]

\* every Psk token of the pattern finds its key
PsksReady(h) ==
    \A i \in 1 .. Len(h.message_patterns) :
        \A j \in 1 .. Len(h.message_patterns[i]) :
            h.message_patterns[i][j].k = "Psk" =>
                h.psks[h.message_patterns[i][j].n] # NoTerm

\* the tokens of the message a call on h processes
CurrentTokens(h) ==
    IF h.pattern_position < Len(h.message_patterns)
    THEN h.message_patterns[h.pattern_position + 1]
    ELSE <<>>

\* a Psk token of the current message names a slot that is not set
MissesPsk(h) ==
    \E j \in 1 .. Len(CurrentTokens(h)) :
        /\ CurrentTokens(h)[j].k = "Psk"
        /\ h.psks[CurrentTokens(h)[j].n] = NoTerm

\* the key material the pattern expects party p to be built with: its own
\* static key, and the peer's static key when the peer's pre-message has it
ExpectedRs(name, p) ==
    \E i \in 1 .. Len(IF p = "I" THEN premsg_pattern_r(name) ELSE premsg_pattern_i(name)) :
        (IF p = "I" THEN premsg_pattern_r(name) ELSE premsg_pattern_i(name))[i].k = "S"

\* the words of a name put together with the separator sep between them
RECURSIVE Join(_, _)
Join(fields, sep) ==
    IF fields = <<>> THEN <<>>
    ELSE IF Len(fields) = 1 THEN Head(fields)
    ELSE Head(fields) \o <<sep>> \o Join(Tail(fields), sep)

\* the protocol name the two parties of a handshake are built from
ProtocolName(name) ==
    Join(<< <<"Noise">>, Spelling(name), <<"25519">>, <<"ChaChaPoly">>, <<"SHA256">> >>, "_")

\* the fields tried at each place of a name handed to the parser: right ones,
\* misspelt ones, ones that belong elsewhere, empty ones
FieldsTried(i) ==
    CASE i = 1 -> {<<"Noise">>, <<"Nois">>, <<>>}
      [] i = 2 -> {<<"NN">>, <<"XX">>, <<"IK">>, <<"ZZ">>, <<>>,
                   <<"NN", "psk0">>, <<"NN", "psk2">>, <<"XX", "psk1">>,
                   <<"XX", "psk0", "+", "psk2">>, <<"XX", "psk2", "+", "psk0">>,
                   <<"XX", "psk0", "+", "psk1", "+", "psk2">>,
                   <<"XX", "psk0", "+">>, <<"XX", "pskx">>}
      [] i = 3 -> {<<"25519">>, <<"448">>, <<"AESGCM">>}
      [] i = 4 -> {<<"ChaChaPoly">>, <<"AESGCM">>, <<"AES">>}
      [] i = 5 -> {<<"SHA256">>, <<"BLAKE2s">>, <<"SHA">>}
      [] OTHER -> {<<"extra">>}

\* the numbers of fields of the names tried
FieldCounts == 0 .. 6

\* the lists of n fields, the i-th one of those tried at place i
RECURSIVE FieldLists(_)
FieldLists(n) ==
    IF n = 0 THEN {<<>>}
    ELSE {Append(fs, f) : fs \in FieldLists(n - 1), f \in FieldsTried(n)}

\* the names handed to the parser
Names == {Join(fs, "_") : fs \in UNION {FieldLists(n) : n \in FieldCounts}}

NoTokens ==
    [err |-> "none", premsg_pattern_i |-> <<>>, premsg_pattern_r |-> <<>>,
     msg_patterns |-> <<>>]

\* an off-protocol call uses up one unit of the budget
Spend(offProtocol) ==
    /\ offProtocol => bad < MaxBad
    /\ bad' = IF offProtocol THEN bad + 1 ELSE bad

Init ==
    /\ pat \in Patterns
    /\ hs = [p \in Party |-> Unbuilt(p)]
    /\ net = [p \in Party |-> <<>>]
    /\ rd = [p \in Party |-> 0]
    /\ last = [op |-> "init", p |-> "I", arg |-> <<0, 0, 0>>, res |-> "none",
               pre |-> Unbuilt("I"), ret |-> 0, dhs |-> <<>>]
    /\ bad = 0
    /\ input = ProtocolName(pat)
    /\ params = NoiseParams_from_str(input)
    /\ tokens = HandshakeTokens_try_from(params.handshake)

\* the builder constructs the handshake state of party p
New(p) ==
    /\ ~hs[p].built
    /\ \E s_on \in BOOLEAN, fixed \in BOOLEAN, rs_on \in BOOLEAN :
        LET r == new(p, pat, s_on, fixed, rs_on, Prologue)
        IN /\ Spend(~s_on \/ rs_on # ExpectedRs(pat, p))
           /\ hs' = [hs EXCEPT ![p] = r.h]
           /\ last' = Call("new", p, <<B(s_on), B(fixed), B(rs_on)>>, r.err, 0, <<>>)
    /\ UNCHANGED <<input, params, tokens, pat, net, rd>>

\* party p calls write_handshake_message
Write(p) ==
    /\ \A q \in Party : hs[q].built
    /\ \E plen \in PayloadLens, buflen \in BufLens,
          ek \in (IF hs[p].fixed_ephemeral THEN {FixedEph(p)} ELSE EphKeys(p)) :
        LET c == write_handshake_message(hs[p], Payload(plen), buflen, ek)
        IN /\ Spend(\/ ~hs[p].my_turn
                    \/ is_finished(hs[p])
                    \/ buflen # BigBuf
                    \/ plen = BigPayload
                    \/ MissesPsk(hs[p]))
           /\ hs' = [hs EXCEPT ![p] = c.h]
           /\ net' = IF c.err = "none" THEN [net EXCEPT ![p] = Append(net[p], c.out)]
                     ELSE net
           /\ last' = Call("write", p, <<plen, buflen, 0>>, c.err, c.idx, c.dhs)
    /\ UNCHANGED <<input, params, tokens, pat, rd>>

\* party p reads the next message its peer wrote
Deliver(p) ==
    /\ \A q \in Party : hs[q].built
    /\ rd[p] < Len(net[Peer(p)])
    /\ LET c == read_handshake_message(hs[p], net[Peer(p)][rd[p] + 1])
       IN /\ Spend(hs[p].my_turn \/ is_finished(hs[p]) \/ MissesPsk(hs[p]))
          /\ hs' = [hs EXCEPT ![p] = c.h]
          /\ rd' = IF c.err = "none" THEN [rd EXCEPT ![p] = rd[p] + 1] ELSE rd
          /\ last' = Call("read", p, <<MsgLen(net[Peer(p)][rd[p] + 1]), 0, 0>>,
                           c.err, c.idx, c.dhs)
    /\ UNCHANGED <<input, params, tokens, pat, net>>

\* a message with the bytes of its payload field changed on the way
Tamper(m) == SubSeq(m, 1, Len(m) - 1) \o <<Chunk(Junk, m[Len(m)].len)>>

\* the messages written so far
Written == net["I"] \o net["R"]

\* the messages a caller can hand to read_handshake_message off protocol:
\* bytes nobody wrote, every message written so far, and each of those with
\* its payload field changed
Offered == BadMsgs \o Written \o [i \in 1 .. Len(Written) |-> Tamper(Written[i])]

\* party p calls read_handshake_message with other bytes: junk, a replay,
\* its own message
ReadAny(p) ==
    /\ \A q \in Party : hs[q].built
    /\ \E i \in 1 .. Len(Offered) :
        LET c == read_handshake_message(hs[p], Offered[i])
        IN /\ Spend(TRUE)
           /\ hs' = [hs EXCEPT ![p] = c.h]
           /\ last' = Call("read", p, <<MsgLen(Offered[i]), 0, 0>>,
                            c.err, c.idx, c.dhs)
    /\ UNCHANGED <<input, params, tokens, pat, net, rd>>

\* does a Psk token of the pattern name slot n?
NamesPsk(h, n) ==
    \E i \in 1 .. Len(h.message_patterns) :
        \E j \in 1 .. Len(h.message_patterns[i]) :
            h.message_patterns[i][j] = Psk(n)

\* party p calls set_psk; the protocol calls for it once for each slot the
\* pattern names
SetPsk(p) ==
    /\ \A q \in Party : hs[q].built
    /\ \E location \in {0, 1, NumPsks}, keylen \in {PSKLEN - 1, PSKLEN} :
        LET r == set_psk(hs[p], location, keylen)
        IN /\ Spend(\/ r.err # "none"
                    \/ ~NamesPsk(hs[p], location)
                    \/ hs[p].psks[location] # NoTerm)
           /\ hs' = [hs EXCEPT ![p] = r.h]
           /\ last' = Call("set_psk", p, <<location, keylen, 0>>, r.err, 0, <<>>)
    /\ UNCHANGED <<input, params, tokens, pat, net, rd>>

\* party p calls the observers
Observe(p) ==
    /\ \A q \in Party : hs[q].built
    /\ last' = Call("observe", p, <<0, 0, 0>>, "none", 0, <<>>)
    /\ UNCHANGED <<input, params, tokens, pat, hs, net, rd, bad>>

Next ==
    \E p \in Party :
        \/ New(p)
        \/ Write(p)
        \/ Deliver(p)
        \/ ReadAny(p)
        \/ SetPsk(p)
        \/ Observe(p)

Spec == Init /\ [][Next]_vars

-----------------------------------------------------------------------------
(* The parser and the expander on their own.                               *)

InitParse ==
    /\ pat = "NN"
    /\ hs = [p \in Party |-> Unbuilt(p)]
    /\ net = [p \in Party |-> <<>>]
    /\ rd = [p \in Party |-> 0]
    /\ last = [op |-> "init", p |-> "I", arg |-> <<0, 0, 0>>, res |-> "none",
               pre |-> Unbuilt("I"), ret |-> 0, dhs |-> <<>>]
    /\ bad = 0
    /\ input \in Names
    /\ params = NoParams("unparsed")
    /\ tokens = NoTokens

\* the name is parsed: input.parse::<NoiseParams>()
Parse ==
    /\ params = NoParams("unparsed")
    /\ params' = NoiseParams_from_str(input)
    /\ UNCHANGED <<pat, hs, net, rd, last, bad, input, tokens>>

\* the parsed handshake choice is expanded: HandshakeTokens::try_from
Expand ==
    /\ params.err = "none"
    /\ tokens = NoTokens
    /\ tokens' = HandshakeTokens_try_from(params.handshake)
    /\ UNCHANGED <<pat, hs, net, rd, last, bad, input, params>>

NextParse == Parse \/ Expand

SpecParse == InitParse /\ [][NextParse]_vars

-----------------------------------------------------------------------------
(* Properties.                                                             *)

IsCall == last.op \in {"write", "read"}

\* the state of the party the last call was made on, after the call
Now == hs[last.p]

\* C1: a write_handshake_message made while my_turn is false fails with
\* NotTurnToWrite and changes nothing: pattern_position, my_turn, the handshake
\* hash and the e, re and rs slots are as before the call.
C1_WriteOutOfTurnIsNoOp ==
    (last.op = "write" /\ ~last.pre.my_turn) =>
        /\ last.res = "NotTurnToWrite"
        /\ Now.pattern_position = last.pre.pattern_position
        /\ Now.my_turn = last.pre.my_turn
        /\ get_handshake_hash(Now) = get_handshake_hash(last.pre)
        /\ <<Now.e, Now.e_on>> = <<last.pre.e, last.pre.e_on>>
        /\ <<Now.re, Now.re_on>> = <<last.pre.re, last.pre.re_on>>
        /\ <<Now.rs, Now.rs_on>> = <<last.pre.rs, last.pre.rs_on>>

\* a write was made out of turn, with a buffer large enough for the message
C1_Witness ==
    /\ last.op = "write"
    /\ ~last.pre.my_turn
    /\ ~is_finished(last.pre)

\* C2: a read_handshake_message made while my_turn is true fails and leaves pattern_position, my_turn and the handshake hash as they
\* were, so that every successful read starts with my_turn false.
C2_ReadOutOfTurnFails ==
    (last.op = "read" /\ last.pre.my_turn) =>
        /\ last.res # "none"
        /\ Now.pattern_position = last.pre.pattern_position
        /\ Now.my_turn = last.pre.my_turn
        /\ get_handshake_hash(Now) = get_handshake_hash(last.pre)

\* C3: a write_handshake_message or read_handshake_message that returns an
\* error leaves the handshake hash equal to its value before the call,
\* however many tokens were processed before the failure.
C3_ErrorRestoresHash ==
    (IsCall /\ last.res \notin {"none", "panic"}) =>
        get_handshake_hash(Now) = get_handshake_hash(last.pre)

\* a write failed after it had written the ephemeral key and mixed a DH result
C3_Witness ==
    /\ last.op = "write"
    /\ last.res \notin {"none", "panic"}
    /\ Now.e # last.pre.e
    /\ last.dhs # <<>>

\* C4: after a failing write_handshake_message or read_handshake_message,
\* pattern_position and my_turn both equal their values before the call.
C4_ErrorKeepsPosition ==
    (IsCall /\ last.res # "none") =>
        /\ Now.pattern_position = last.pre.pattern_position
        /\ Now.my_turn = last.pre.my_turn

\* a read failed on its payload after every token of the message was processed
C4_Witness ==
    /\ last.op = "read"
    /\ last.res = "Decrypt"
    /\ last.dhs # <<>>
    /\ ~last.pre.my_turn

\* C5: a successful write adds one to pattern_position and sets my_turn to
\* false; a successful read adds one and sets my_turn to true; set_psk and
\* the observers change neither.
C5_Transitions ==
    /\ (last.op = "write" /\ last.res = "none") =>
           /\ Now.pattern_position = last.pre.pattern_position + 1
           /\ Now.my_turn = FALSE
    /\ (last.op = "read" /\ last.res = "none") =>
           /\ Now.pattern_position = last.pre.pattern_position + 1
           /\ Now.my_turn = TRUE
    /\ (last.op \in {"set_psk", "observe"}) =>
           /\ Now.pattern_position = last.pre.pattern_position
           /\ Now.my_turn = last.pre.my_turn

\* the second message of a handshake was read successfully
C5_Witness ==
    /\ last.op = "read"
    /\ last.res = "none"
    /\ last.pre.pattern_position = 1
    /\ ~last.pre.my_turn

\* C6: in every state 0 <= pattern_position <= messages.len(), is_finished
\* holds exactly when they are equal, and no call lowers pattern_position.
C6_PositionInRange ==
    /\ \A p \in Party :
          hs[p].built =>
              /\ 0 <= hs[p].pattern_position
              /\ hs[p].pattern_position <= Len(msg_patterns(pat))
              /\ is_finished(hs[p]) <=> (hs[p].pattern_position = Len(msg_patterns(pat)))
    /\ last.pre.built => Now.pattern_position >= last.pre.pattern_position

\* a call was made on a finished handshake while the peer has finished too
C6_Witness ==
    /\ IsCall
    /\ is_finished(last.pre)
    /\ \A p \in Party : hs[p].built /\ is_finished(hs[p])

\* C7: once is_finished, every write_handshake_message or
\* read_handshake_message returns an error value, never panics, and
\* pattern_position stays messages.len().
C7_FinishedIsSafe ==
    (IsCall /\ last.pre.built /\ is_finished(last.pre)) =>
        /\ last.res \notin {"none", "panic"}
        /\ Now.pattern_position = Len(Now.message_patterns)

\* both parties hold a handshake state and have finished
BothFinished == \A p \in Party : hs[p].built /\ is_finished(hs[p])

\* C8: when both parties are built for the same pattern with the key
\* material it expects and the psks it names, and each message written is
\* delivered unchanged and in order, no write or read fails, both parties are
\* finished after messages.len() messages, they report the same handshake
\* hash and their transport cipher pairs hold the same two keys.
C8_RoundTrip ==
    bad = 0 =>
        /\ (IsCall /\ PsksReady(last.pre)) => last.res = "none"
        /\ BothFinished =>
              /\ Len(net["I"]) + Len(net["R"]) = Len(msg_patterns(pat))
              /\ get_handshake_hash(hs["I"]) = get_handshake_hash(hs["R"])
              /\ hs["I"].cipherstates = hs["R"].cipherstates
              /\ hs["I"].cipherstates # NoCiphers

\* the (local_s, remote_s) the role of a party gives to a DH token: ES is the
\* initiator's ephemeral key with the responder's static key, SE the
\* initiator's static key with the responder's ephemeral key
RoleDhArgs(tok, initiator) ==
    CASE tok = "Dhee" -> <<FALSE, FALSE>>
      [] tok = "Dhes" -> IF initiator THEN <<FALSE, TRUE>> ELSE <<TRUE, FALSE>>
      [] tok = "Dhse" -> IF initiator THEN <<TRUE, FALSE>> ELSE <<FALSE, TRUE>>
      [] tok = "Dhss" -> <<TRUE, TRUE>>

\* C9: every DH a call of a protocol run computes for a token uses the keys
\* the party's role gives that token, whether the party writes or reads the
\* message.
C9_DhFollowsRole ==
    (IsCall /\ bad = 0) =>
        \A i \in 1 .. Len(last.dhs) :
            <<last.dhs[i][2], last.dhs[i][3]>> =
                RoleDhArgs(last.dhs[i][1], last.pre.initiator)

\* C10: split is performed only by the successful call that processes the
\* last message pattern, so at most once for a handshake state, and a party
\* holds transport keys exactly when it is finished.
C10_SplitOnlyAtEnd ==
    /\ \A p \in Party :
          hs[p].built =>
              /\ hs[p].splits = (IF is_finished(hs[p]) THEN 1 ELSE 0)
              /\ (hs[p].cipherstates # NoCiphers) <=> is_finished(hs[p])
    /\ (last.pre.built /\ Now.splits # last.pre.splits) =>
          /\ IsCall
          /\ last.res = "none"
          /\ last.pre.pattern_position = Len(last.pre.message_patterns) - 1
    /\ (last.pre.built /\ Now.cipherstates # last.pre.cipherstates) =>
          Now.splits # last.pre.splits

\* a read of the last message succeeded and split
C10_Witness ==
    /\ last.op = "read"
    /\ last.res = "none"
    /\ Now.splits = 1
    /\ last.pre.splits = 0
    /\ Now.cipherstates # NoCiphers

\* the write that failed, repeated with a buffer large enough for the message
Retry == write_handshake_message(Now, Payload(last.arg[1]), BigBuf, FixedEph(last.p))

\* the same write on the handshake state as it was before the failed call
Clean == write_handshake_message(last.pre, Payload(last.arg[1]), BigBuf, FixedEph(last.p))

\* a write with a fixed ephemeral key failed because the buffer was too small
ShortBufferWrite ==
    /\ last.op = "write"
    /\ last.res = "Input"
    /\ last.pre.fixed_ephemeral
    /\ last.arg[2] < BigBuf

RetryEqualsClean ==
    ShortBufferWrite =>
        /\ Retry.err = Clean.err
        /\ Retry.out = Clean.out
        /\ get_handshake_hash(Retry.h) = get_handshake_hash(Clean.h)
        /\ Retry.h.pattern_position = Clean.h.pattern_position
        /\ Retry.h.my_turn = Clean.h.my_turn

HasPskToken(toks) == \E j \in 1 .. Len(toks) : toks[j].k = "Psk"

\* the last call was in turn and gave the tokens before the Psk token the
\* bytes they need: room for the ephemeral key, or a message that holds one
ReachesPskToken ==
    \/ last.op = "write" /\ last.pre.my_turn /\ last.arg[2] >= DHLEN
    \/ /\ last.op = "read" /\ ~last.pre.my_turn
       /\ last.arg[1] >= DHLEN /\ last.arg[1] <= MAXMSGLEN

\* no message up to pattern_position has a Psk token
PskFreeSoFar(h) ==
    \A i \in 1 .. h.pattern_position : ~HasPskToken(h.message_patterns[i])

\* C12: when the current message pattern contains Psk(n) and psks[n] is not
\* set, the write or read of that message fails, with MissingPsk when the call
\* gets as far as the token, and the handshake hash, pattern_position and
\* my_turn are unchanged; the messages before the one with the token succeed
\* and give both parties the same hash whether or not the psk is set.
C12_MissingPsk ==
    /\ (IsCall /\ last.pre.built /\ MissesPsk(last.pre)) =>
           /\ last.res \notin {"none", "panic"}
           /\ ReachesPskToken => last.res = "MissingPsk"
           /\ get_handshake_hash(Now) = get_handshake_hash(last.pre)
           /\ Now.pattern_position = last.pre.pattern_position
           /\ Now.my_turn = last.pre.my_turn
    /\ (IsCall /\ bad = 0 /\ is_psk(pat) /\ ~HasPskToken(CurrentTokens(last.pre))) =>
           last.res = "none"
    /\ (bad = 0 /\ is_psk(pat) /\ (\A p \in Party : hs[p].built)
           /\ hs["I"].pattern_position = hs["R"].pattern_position
           /\ PskFreeSoFar(hs["I"])) =>
           get_handshake_hash(hs["I"]) = get_handshake_hash(hs["R"])

\* a read of the second message got through its E and EE tokens and failed
\* at the Psk token, after the first message went through with one party
\* holding the psk and the other not
C12_Witness ==
    /\ last.op = "read"
    /\ last.res = "MissingPsk"
    /\ last.dhs # <<>>
    /\ last.pre.pattern_position = 1
    /\ hs[Peer(last.p)].psks # Now.psks

\* C13: set_psk(location, key) fails with Input and leaves all ten psk slots
\* as they were when the key is not 32 bytes long or location >= 10; on
\* success it sets slot location to the key and changes no other slot, nor
\* pattern_position, my_turn or the handshake hash; so every psk slot that is
\* set holds exactly 32 bytes.
C13_SetPsk ==
    /\ last.op = "set_psk" =>
           /\ IF last.arg[2] # PSKLEN \/ last.arg[1] >= NumPsks
              THEN /\ last.res = "Input"
                   /\ Now.psks = last.pre.psks
              ELSE /\ last.res = "none"
                   /\ Now.psks[last.arg[1]] = PskKey(last.arg[1], last.arg[2])
                   /\ \A i \in 0 .. (NumPsks - 1) :
                          i # last.arg[1] => Now.psks[i] = last.pre.psks[i]
           /\ Now.pattern_position = last.pre.pattern_position
           /\ Now.my_turn = last.pre.my_turn
           /\ get_handshake_hash(Now) = get_handshake_hash(last.pre)
    /\ \A p \in Party : DOMAIN hs[p].psks = 0 .. (NumPsks - 1)
    /\ \A p \in Party : \A i \in 0 .. (NumPsks - 1) :
           hs[p].psks[i] # NoTerm => PskLen(hs[p].psks[i]) = PSKLEN

\* set_psk succeeded on a handshake state that held a psk in another slot
C13_Witness ==
    /\ last.op = "set_psk"
    /\ last.res = "none"
    /\ \E i \in 0 .. (NumPsks - 1) :
           i # last.arg[1] /\ last.pre.psks[i] # NoTerm /\ Now.psks[i] # NoTerm

\* set_psk was refused for a 32-byte key and a location past the ten slots
C13_WitnessRefused ==
    /\ last.op = "set_psk"
    /\ last.res = "Input"
    /\ last.arg[1] >= NumPsks
    /\ last.arg[2] = PSKLEN

\* the wire format: the bytes the tokens of a message take, and whether a key
\* is installed once they are processed; E takes DHLEN bytes, S takes DHLEN
\* bytes and a tag when a key is installed, and a key is installed by Psk, by
\* a DH token and, in a psk handshake, by E
RECURSIVE TokenBytes(_, _, _)
TokenBytes(toks, keyed, psk) ==
    IF toks = <<>> THEN [len |-> 0, keyed |-> keyed]
    ELSE LET tok == Head(toks)
             len == CASE tok.k = "E" -> DHLEN
                      [] tok.k = "S" -> DHLEN + (IF keyed THEN TAGLEN ELSE 0)
                      [] OTHER -> 0
             k1 == keyed \/ tok.k = "Psk" \/ IsDh(tok) \/ (tok.k = "E" /\ psk)
             rest == TokenBytes(Tail(toks), k1, psk)
         IN [len |-> len + rest.len, keyed |-> rest.keyed]

\* the token bytes of the message the last call was made for
Wire == TokenBytes(CurrentTokens(last.pre), last.pre.sym.has_key, is_psk(last.pre.name))

\* the length of the whole message the last write was asked for
WireLen == Wire.len + last.arg[1] + (IF Wire.keyed THEN TAGLEN ELSE 0)

\* the tokens of the message find their keys and psks: given all the room
\* they need, they are processed without an error
TokensPass ==
    WriteTokens([h |-> last.pre, idx |-> 0, out |-> <<>>, err |-> "none", dhs |-> <<>>],
                CurrentTokens(last.pre), HugeBuf, FixedEph(last.p)).err = "none"

\* C14: a write_handshake_message that gets past the turn and finished checks
\* and whose tokens find their keys fails with Input whenever the bytes
\* written for the tokens plus the payload length plus 16 exceed the length of
\* the output buffer, and whenever the whole message would be longer than
\* 65535 bytes; no successful write returns a length greater than 65535 or
\* greater than the length of the buffer.
C14_WriteBounds ==
    (last.op = "write" /\ write_precheck(last.pre) = "none") =>
        /\ (TokensPass /\ Wire.len + last.arg[1] + TAGLEN > last.arg[2]) =>
               last.res = "Input"
        /\ (TokensPass /\ WireLen > MAXMSGLEN) => last.res = "Input"
        /\ last.res = "none" =>
               /\ last.ret = WireLen
               /\ last.ret <= MAXMSGLEN
               /\ last.ret <= last.arg[2]

\* a write with room in its buffer failed because the message, with its tag,
\* would be longer than 65535 bytes
C14_Witness ==
    /\ last.op = "write"
    /\ last.res = "Input"
    /\ TokensPass
    /\ Wire.len + last.arg[1] + TAGLEN <= last.arg[2]
    /\ WireLen > MAXMSGLEN

\* a write returned a message of exactly 65535 bytes
C14_WitnessLargest ==
    /\ last.op = "write"
    /\ last.res = "none"
    /\ last.ret = MAXMSGLEN

C16_InitialState ==
    (last.op = "new" /\ last.res = "none") =>
        /\ Now.built
        /\ Now.pattern_position = 0
        /\ Now.my_turn = Now.initiator
        /\ Now.initiator = (last.p = "I")
        /\ ~is_finished(Now)

\* a responder was constructed
C16_Witness ==
    /\ last.op = "new"
    /\ last.res = "none"
    /\ last.p = "R"
    /\ ~Now.my_turn

\* the last call was new: a pre-message token of the pattern names a slot
\* that the arguments of the call leave off. The arguments are s, the fixed
\* ephemeral key e and rs; re is always off.
PremsgSlotOff ==
    LET own == IF last.p = "I" THEN premsg_pattern_i(pat) ELSE premsg_pattern_r(pat)
        peer == IF last.p = "I" THEN premsg_pattern_r(pat) ELSE premsg_pattern_i(pat)
    IN \/ \E j \in 1 .. Len(own) :
              \/ own[j].k = "S" /\ last.arg[1] = 0
              \/ own[j].k = "E" /\ last.arg[2] = 0
       \/ \E j \in 1 .. Len(peer) :
              \/ peer[j].k = "S" /\ last.arg[3] = 0
              \/ peer[j].k = "E"

\* C17: construction fails with MissingKeyMaterial and produces no handshake
\* state whenever a pre-message token of the pattern names a key whose slot is
\* off: the tokens of the party's own role need s or e on, the tokens of the
\* peer's role need rs or re on. Construction with all those slots on never
\* reports MissingKeyMaterial.
C17_PremsgKeys ==
    last.op = "new" =>
        IF PremsgSlotOff
        THEN last.res = "MissingKeyMaterial" /\ ~Now.built
        ELSE last.res # "MissingKeyMaterial"

\* a responder was refused because the pattern has the initiator's static key
\* in its pre-message and rs was off, while its own static key was on
C17_Witness ==
    /\ last.op = "new"
    /\ last.res = "MissingKeyMaterial"
    /\ last.p = "R"
    /\ last.arg[1] = 1
    /\ last.arg[3] = 0

\* an initiator was refused because the pattern has its own static key in
\* its pre-message and s was off
C17_WitnessOwn ==
    /\ last.op = "new"
    /\ last.res = "MissingKeyMaterial"
    /\ last.p = "I"
    /\ last.arg[1] = 0
    /\ premsg_pattern_r(pat) = <<>>

\* the fields of the name handed to the parser
Fields == Split_on(input, "_", <<>>)

\* the spellings each place of a name accepts, and the error of each place
Accepted(i) ==
    CASE i = 1 -> {<<"Noise">>}
      [] i = 2 -> {f \in FieldsTried(2) : HandshakeChoice_from_str(f).err = "none"}
      [] i = 3 -> {<<"25519">>, <<"448">>}
      [] i = 4 -> {<<"ChaChaPoly">>, <<"AESGCM">>}
      [] i = 5 -> {<<"SHA256">>, <<"SHA512">>, <<"BLAKE2s">>, <<"BLAKE2b">>}

Unsupported(i) ==
    CASE i = 1 -> "UnsupportedBaseType"
      [] i = 2 -> HandshakeChoice_from_str(Fields[2]).err
      [] i = 3 -> "UnsupportedDhType"
      [] i = 4 -> "UnsupportedCipherType"
      [] i = 5 -> "UnsupportedHashType"

\* place i of the name is missing or holds a spelling that is not accepted
Faulty(i) == i > Len(Fields) \/ Fields[i] \notin Accepted(i)

\* the name has been parsed
Parsed == params # NoParams("unparsed")

\* C18: parsing a protocol name reads the '_'-separated fields in the order
\* base, pattern+modifiers, dh, cipher, hash and reports the error of the
\* first field that is missing or unknown: TooFewParameters for a missing
\* field, UnsupportedBaseType, UnsupportedDhType, UnsupportedCipherType or
\* UnsupportedHashType for an unknown one (Noise_XX_25519_AES_SHA256 gives
\* UnsupportedCipherType, Noise_XX_25519_AESGCM gives TooFewParameters); on
\* success the stored name is the input string.
C18_ParseErrors ==
    Parsed =>
        /\ IF \E i \in 1 .. 5 : Faulty(i)
           THEN LET i == CHOOSE k \in 1 .. 5 :
                             Faulty(k) /\ \A m \in 1 .. (k - 1) : ~Faulty(m)
                IN params.err = IF i > Len(Fields) THEN "TooFewParameters"
                                 ELSE Unsupported(i)
           ELSE params.err = "none" /\ params.name = input
        /\ input = <<"Noise", "_", "XX", "_", "25519", "_", "AES", "_", "SHA256">> =>
               params.err = "UnsupportedCipherType"
        /\ input = <<"Noise", "_", "XX", "_", "25519", "_", "AESGCM">> =>
               params.err = "TooFewParameters"

\* a name with an unknown dh field and an unknown cipher field was parsed
C18_Witness ==
    /\ Parsed
    /\ Len(Fields) >= 4
    /\ Faulty(3)
    /\ Faulty(4)
    /\ params.err = "UnsupportedDhType"

\* the name Noise_XX_25519_AESGCM was parsed
C18_WitnessTooFew ==
    /\ Parsed
    /\ input = <<"Noise", "_", "XX", "_", "25519", "_", "AESGCM">>
    /\ params.err = "TooFewParameters"

\* the name has been parsed and its handshake choice expanded
Expanded == Parsed /\ tokens # NoTokens

\* the kinds of the tokens of a message
Kinds(toks) == [j \in 1 .. Len(toks) |-> toks[j].k]

\* the modifiers of the parsed handshake choice, as a set of psk numbers
Modifiers == {params.handshake.modifiers[j] : j \in 1 .. Len(params.handshake.modifiers)}

\* the tokens of message i of the base pattern of the parsed choice
BaseMessage(i) == base_msgs(params.handshake.pattern)[i]

\* C19: pattern modifiers are parsed in order and expanded compositionally:
\* psk0 puts a Psk token first in message 1 and psk<k>, k >= 1, puts a Psk
\* token last in message k; several psk modifiers all take effect, so for
\* psk0+psk2 on XX the first token of the first message and the last token of
\* the second message are Psk tokens.
C19_PskModifiers ==
    /\ (Parsed /\ params.err = "none"
           /\ Fields[2] = <<"XX", "psk0", "+", "psk1", "+", "psk2">>) =>
           params.handshake.modifiers = <<0, 1, 2>>
    /\ (Parsed /\ params.err = "none" /\ Fields[2] = <<"XX", "psk2", "+", "psk0">>) =>
           params.handshake.modifiers = <<2, 0>>
    /\ Expanded =>
           /\ tokens.err = "none"
           /\ Len(tokens.msg_patterns) = Len(base_msgs(params.handshake.pattern))
           /\ \A i \in 1 .. Len(tokens.msg_patterns) :
                  Kinds(tokens.msg_patterns[i]) =
                      (IF i = 1 /\ 0 \in Modifiers THEN <<"Psk">> ELSE <<>>)
                      \o Kinds(BaseMessage(i))
                      \o (IF i \in Modifiers THEN <<"Psk">> ELSE <<>>)
    /\ (Expanded /\ Fields[2] = <<"XX", "psk0", "+", "psk2">>) =>
           /\ tokens.msg_patterns[1][1].k = "Psk"
           /\ tokens.msg_patterns[2][Len(tokens.msg_patterns[2])].k = "Psk"

\* Noise_XXpsk0+psk2 was parsed and expanded
C19_Witness ==
    /\ Expanded
    /\ Fields[2] = <<"XX", "psk0", "+", "psk2">>
    /\ params.handshake.modifiers = <<0, 2>>
    /\ Len(tokens.msg_patterns) = 3

\* C20: in write_handshake_message the turn check comes before the finished
\* check: on a finished handshake a write fails with HandshakeAlreadyFinished
\* only if my_turn is true and with NotTurnToWrite if my_turn is false, as it
\* is for the party that wrote the last message; in both cases before any
\* token is processed, so nothing is written and the state is as before.
C20_TurnBeforeFinished ==
    (last.op = "write" /\ is_finished(last.pre)) =>
        /\ last.res = IF last.pre.my_turn THEN "HandshakeAlreadyFinished"
                      ELSE "NotTurnToWrite"
        /\ last.ret = 0
        /\ last.dhs = <<>>
        /\ Now = last.pre

\* the party that wrote the last message called write again
C20_Witness ==
    /\ last.op = "write"
    /\ is_finished(last.pre)
    /\ ~last.pre.my_turn
    /\ last.res = "NotTurnToWrite"
    /\ Len(net[last.p]) > 0

\* the party that read the last message called write
C20_WitnessReader ==
    /\ last.op = "write"
    /\ is_finished(last.pre)
    /\ last.pre.my_turn
    /\ last.res = "HandshakeAlreadyFinished"


-----------------------------------------------------------------------------
(* Construction: what the hash holds before any message.                   *)

\* the public keys a pre-message token list names, as party h holds them: its
\* own from s/e, its peer's from rs/re
PremsgKeys(h, toks, own) ==
    [i \in 1 .. Len(toks) |->
        IF own THEN Pub(IF toks[i].k = "S" THEN h.s ELSE h.e)
        ELSE (IF toks[i].k = "S" THEN h.rs ELSE h.re)]

\* the hash after the items of a list are mixed in, one after the other
RECURSIVE HashOver(_, _)
HashOver(hash, items) ==
    IF items = <<>> THEN hash
    ELSE HashOver(T("H", 0, <<hash, Head(items)>>), Tail(items))

\* the name, then the prologue, then the initiator's pre-message keys, then
\* the responder's
HashAtStart(h) ==
    HashOver(Initialize(h.name).h,
             <<Prologue>>
             \o PremsgKeys(h, premsg_pattern_i(h.name), h.initiator)
             \o PremsgKeys(h, premsg_pattern_r(h.name), ~h.initiator))

\* C21: construction mixes into the hash the prologue, then the initiator's
\* pre-message keys, then the responder's, for both roles (own keys from s/e,
\* the peer's from rs/re); so an initiator and a responder built from the same
\* name and prologue with consistent keys report the same handshake hash
\* before any message is exchanged.
C21_HashAtStart ==
    /\ (last.op = "new" /\ last.res = "none") =>
           get_handshake_hash(Now) = HashAtStart(Now)
    /\ ((\A p \in Party : hs[p].built /\ hs[p].pattern_position = 0)) =>
           get_handshake_hash(hs["I"]) = get_handshake_hash(hs["R"])

\* both parties are built for a pattern with a pre-message key on each side,
\* the second one just now, and no message is written yet
C21_Witness ==
    /\ last.op = "new" /\ last.res = "none"
    /\ \A p \in Party : hs[p].built
    /\ premsg_pattern_i(pat) # <<>> /\ premsg_pattern_r(pat) # <<>>
    /\ Written = <<>>
    /\ get_handshake_hash(hs["I"]) = get_handshake_hash(hs["R"])
    /\ get_handshake_hash(hs["I"]) =
           HashOver(Initialize(pat).h,
                    <<Prologue, Pub(StaticKey("I")), Pub(StaticKey("R"))>>)

-----------------------------------------------------------------------------
(* read_handshake_message: the bytes the tokens take.                      *)

\* a pass over the tokens of a message of left bytes that looks at lengths and
\* slots only: E and S take their bytes or come up short, a DH token or a Psk
\* token that lacks its key stops the pass; sure is lost once a field was
\* decrypted under a key, which can fail on its contents
RECURSIVE ReadWalk(_, _)
ReadWalk(w, toks) ==
    IF toks = <<>> \/ w.out # "go" THEN w
    ELSE LET tok == Head(toks)
             need == IF tok.k = "S" /\ w.keyed THEN DHLEN + TAGLEN ELSE DHLEN
             w1 == CASE tok.k = "E" ->
                          IF w.left < need THEN [w EXCEPT !.out = "short"]
                          ELSE [w EXCEPT !.left = w.left - need, !.h.re_on = TRUE,
                                         !.keyed = w.keyed \/ is_psk(w.h.name)]
                    [] tok.k = "S" ->
                          IF w.left < need THEN [w EXCEPT !.out = "short"]
                          ELSE [w EXCEPT !.left = w.left - need, !.h.rs_on = TRUE,
                                         !.sure = w.sure /\ ~w.keyed]
                    [] tok.k = "Psk" ->
                          IF w.h.psks[tok.n] = NoTerm THEN [w EXCEPT !.out = "stop"]
                          ELSE [w EXCEPT !.keyed = TRUE]
                    [] IsDh(tok) ->
                          IF ~dh_has_keys(w.h, read_dh_args(tok)[1], read_dh_args(tok)[2])
                          THEN [w EXCEPT !.out = "stop"]
                          ELSE [w EXCEPT !.keyed = TRUE]
         IN ReadWalk(w1, Tail(toks))

\* the pass for the last call, a read
Walked ==
    ReadWalk([h |-> last.pre, left |-> last.arg[1], keyed |-> last.pre.sym.has_key,
              sure |-> TRUE, out |-> "go"],
             CurrentTokens(last.pre))

\* the last call was a read that got as far as the tokens of a message
ReadOfMessage ==
    /\ last.op = "read"
    /\ last.pre.pattern_position < Len(last.pre.message_patterns)

\* C22: read_handshake_message fails with Input when the message is longer
\* than 65535 bytes, or when at an E token fewer than DHLEN bytes remain, or at
\* an S token fewer than DHLEN (no key installed) or DHLEN+16 (key installed);
\* on success the payload length returned is the length of the trailer, less
\* 16 when a key is installed, and it is never negative.
C22_ReadBounds ==
    /\ (last.op = "read" /\ last.arg[1] > MAXMSGLEN) => last.res = "Input"
    /\ (ReadOfMessage /\ last.arg[1] <= MAXMSGLEN /\ Walked.out = "short" /\ Walked.sure) =>
           last.res = "Input"
    /\ (last.op = "read" /\ last.res = "Input") =>
           (last.arg[1] > MAXMSGLEN \/ Walked.out = "short")
    /\ (last.op = "read" /\ last.res = "none") =>
           /\ Walked.out = "go"
           /\ last.ret = Walked.left - (IF Walked.keyed THEN TAGLEN ELSE 0)
           /\ Walked.keyed = Now.sym.has_key
           /\ last.ret >= 0

\* a read came up short at an S token with a key installed, with enough bytes
\* left for a key but not for a key and its tag
C22_Witness ==
    /\ ReadOfMessage /\ last.res = "Input"
    /\ Walked.out = "short" /\ Walked.keyed
    /\ Walked.left >= DHLEN /\ Walked.left < DHLEN + TAGLEN

\* a read came up short at an S token with no key installed
C22_WitnessNoKey ==
    /\ ReadOfMessage /\ last.res = "Input"
    /\ Walked.out = "short" /\ ~Walked.keyed
    /\ Walked.h.re_on /\ Walked.left < DHLEN
    /\ last.arg[1] >= DHLEN

\* a read succeeded with a key installed and returned a payload of one byte
C22_WitnessPayload ==
    /\ last.op = "read" /\ last.res = "none"
    /\ Walked.keyed /\ Walked.left = TAGLEN + 1 /\ last.ret = 1

-----------------------------------------------------------------------------
(* The DH tokens on the two sides of a message.                            *)

\* the DH tokens of a message, in order
DhTokens(toks) == SelectSeq(toks, IsDh)

\* the last call was a read or a write that got as far as the tokens
TokensCall ==
    /\ last.op \in {"read", "write"}
    /\ last.res # "panic"
    /\ last.pre.pattern_position < Len(last.pre.message_patterns)

\* MissingKeyMaterial came from a DH token: the one other place that raises
\* it is the S token of a write, when s is off
DhFailed == last.op = "read" \/ last.pre.s_on

\* the pair the last call gave its k-th DH token if the reader of a message
\* mirrors its writer: the writer's (X, Y), the reader's (Y, X)
MirrorArgs(k) ==
    LET w == write_dh_args(DhTokens(CurrentTokens(last.pre))[k])
    IN IF last.op = "write" THEN w ELSE <<w[2], w[1]>>

\* the shared secret of a pair of slots of h
Secret(h, local_s, remote_s) ==
    DhOut(IF local_s THEN h.s ELSE h.e, IF remote_s THEN h.rs ELSE h.re)

\* C23: for every DH token the reader of a message combines its local Y key
\* with the remote X key where the writer combines its local X key with the
\* remote Y key, so for a message delivered unmodified both feed the same
\* shared secret to mix_key; and a DH token that finds a slot it needs off
\* fails with MissingKeyMaterial and nothing is computed.
C23_DhMirror ==
    /\ TokensCall =>
           /\ Len(last.dhs) <= Len(DhTokens(CurrentTokens(last.pre)))
           /\ \A k \in 1 .. Len(last.dhs) :
                  /\ last.dhs[k] = <<DhTokens(CurrentTokens(last.pre))[k].k,
                                     MirrorArgs(k)[1], MirrorArgs(k)[2]>>
                  /\ dh_has_keys(Now, MirrorArgs(k)[1], MirrorArgs(k)[2])
           /\ last.res = "none" =>
                  Len(last.dhs) = Len(DhTokens(CurrentTokens(last.pre)))
           /\ (last.res = "MissingKeyMaterial" /\ DhFailed) =>
                  /\ Len(last.dhs) < Len(DhTokens(CurrentTokens(last.pre)))
                  /\ ~dh_has_keys(Now, MirrorArgs(Len(last.dhs) + 1)[1],
                                  MirrorArgs(Len(last.dhs) + 1)[2])
                  /\ Now.sym = last.pre.sym
    /\ (last.op = "read" /\ last.res = "none"
           /\ hs[Peer(last.p)].pattern_position = Now.pattern_position) =>
           /\ Now.sym.ck = hs[Peer(last.p)].sym.ck
           /\ bad = 0 =>
                  \A k \in 1 .. Len(last.dhs) :
                      Secret(Now, last.dhs[k][2], last.dhs[k][3]) =
                          Secret(hs[Peer(last.p)], last.dhs[k][3], last.dhs[k][2])

\* a message written by one party was read by the other, and one of its DH
\* tokens combined a static key with an ephemeral one
C23_Witness ==
    /\ last.op = "read" /\ last.res = "none" /\ bad = 0
    /\ hs[Peer(last.p)].pattern_position = Now.pattern_position
    /\ \E k \in 1 .. Len(last.dhs) :
           /\ last.dhs[k][2] # last.dhs[k][3]
           /\ Secret(Now, last.dhs[k][2], last.dhs[k][3]).t = "dh"
    /\ Now.sym.ck = hs[Peer(last.p)].sym.ck

\* a DH token found a slot off and the call failed with MissingKeyMaterial
C23_WitnessMissing ==
    /\ TokensCall /\ last.res = "MissingKeyMaterial" /\ DhFailed
    /\ Len(last.dhs) >= 1

-----------------------------------------------------------------------------
(* The two parties take turns.                                             *)

\* every message a party has read so far is one its peer wrote, read in the
\* order written: its position counts the messages it wrote and those
\* delivered to it, and nothing else
ReadsDelivered ==
    \A p \in Party :
        hs[p].built => hs[p].pattern_position = Len(net[p]) + rd[p]

\* C24: in a run where a party reads only the messages its peer wrote,
\* delivered in order, the two parties never have my_turn set at the same
\* time, their pattern_position values differ by at most 1, and message i
\* (counted from 0) is written by the initiator when i is even and by the
\* responder when i is odd.
C24_Turns ==
    ((\A p \in Party : hs[p].built) /\ ReadsDelivered) =>
        /\ ~(hs["I"].my_turn /\ hs["R"].my_turn)
        /\ hs["I"].pattern_position - hs["R"].pattern_position \in {-1, 0, 1}
        /\ (last.op = "write" /\ last.res = "none") =>
               (last.p = "I" <=> last.pre.pattern_position % 2 = 0)
        /\ Len(net["I"]) - Len(net["R"]) \in {0, 1}

\* the responder has written the second message, which the initiator has not
\* read yet: neither party has the turn and the positions differ by one
C24_Witness ==
    /\ ReadsDelivered
    /\ last.op = "write" /\ last.res = "none" /\ last.p = "R"
    /\ last.pre.pattern_position = 1
    /\ hs["R"].pattern_position = 2 /\ hs["I"].pattern_position = 1
    /\ ~hs["I"].my_turn /\ ~hs["R"].my_turn

====
